---- MODULE Spec2Model ----
(***************************************************************************)
(* A model of errodator: the Errod error class, the default internal      *)
(* error handler basicInternalError, and the Errodator dispatcher with    *)
(* its constructor and its asynchronous validate method.                  *)
(*                                                                         *)
(* A JavaScript value is a record [proto, props]: proto is what           *)
(* instanceof and property access depend on, props is what reading each   *)
(* property yields ("undefined" when the property is absent).  Every      *)
(* property value is a string; the empty string is the falsy one.         *)
(***************************************************************************)
EXTENDS Naturals, Sequences, FiniteSets

\* ---------------------------------------------------------------- bounds
MaxSources == 2      \* metadata sources handed to one Errod constructor
NumCalls == 2        \* validate calls in flight at once (SpecConc)

\* ---------------------------------------------------------------- values
Keys == {"message", "name", "code", "cause"}
Undefined == "undefined"

Props(m, n, cd, cs) == [message |-> m, name |-> n, code |-> cd, cause |-> cs]
NoProps == Props(Undefined, Undefined, Undefined, Undefined)

\* null and undefined: reading a property of them throws a TypeError
NullValue == [proto |-> "Null", props |-> NoProps]
\* a thrown primitive such as a string: every property reads undefined
PrimValue == [proto |-> "Prim", props |-> NoProps]
\* new Error(m) and new Error(m, {cause})
ErrorValue(m, cs) == [proto |-> "Error", props |-> Props(m, "Error", Undefined, cs)]
\* a plain object that only carries the name 'Errod'
FakeErrod == [proto |-> "Object", props |-> Props("fake", "Errod", Undefined, Undefined)]
\* what reading a property of null throws
TypeErrorValue ==
    [proto |-> "Error",
     props |-> Props("Cannot read properties of null", "TypeError", Undefined, Undefined)]

Nullish(v) == v.proto = "Null"
\* JavaScript truthiness of a property value
Truthy(x) == x # Undefined /\ x # ""

\* ----------------------------------------------------------------- Errod
\* Object.assign(target, src): every own property of src is copied
AssignOne(target, src) ==
    [k \in Keys |-> IF src[k] # Undefined THEN src[k] ELSE target[k]]

\* a merge that applies the sources last to first
RECURSIVE ObjectAssignReversed(_, _)
ObjectAssignReversed(target, srcs) ==
    IF srcs = << >> THEN target
    ELSE ObjectAssignReversed(AssignOne(target, srcs[Len(srcs)]), SubSeq(srcs, 1, Len(srcs) - 1))

\* Object.assign(target, ...srcs): the sources are applied first to last
RECURSIVE ObjectAssign(_, _)
ObjectAssign(target, srcs) ==
    IF srcs = << >> THEN target
    ELSE ObjectAssign(AssignOne(target, Head(srcs)), Tail(srcs))

\* new Errod(message, ...args)
ErrodConstructor(message, args) ==
    LET afterSuper == [NoProps EXCEPT !.message = message]
        afterName == [afterSuper EXCEPT !.name = "Errod"]
    IN [proto |-> "Errod", props |-> ObjectAssign(afterName, args)]

\* a test of the name property instead of the prototype chain
IsErrodByName(v) == v.props.name = "Errod"

\* a test against every error object: error instanceof Error
IsErrodAnyError(v) == v.proto \in {"Errod", "Error"}

\* error instanceof Errod
IsErrod(v) == v.proto = "Errod"

\* ---------------------------------------------------------------- inputs
Src(k, v) == [NoProps EXCEPT ![k] = v]
Sources ==
    {Src("code", "400"), Src("code", "500"), Src("name", "Renamed"),
     Src("message", "overwritten"), Src("cause", "db"),
     [NoProps EXCEPT !.code = "404", !.cause = ""]}
Messages == {"bad input", "denied", ""}

RECURSIVE SeqsUpTo(_, _)
SeqsUpTo(S, n) ==
    IF n = 0 THEN {<< >>}
    ELSE LET shorter == SeqsUpTo(S, n - 1)
         IN shorter \cup {Append(s, x) : s \in {t \in shorter : Len(t) = n - 1}, x \in S}

SourceLists == SeqsUpTo(Sources, MaxSources)

VARIABLES errod, dispatcher, calls, earlier
vars == <<errod, dispatcher, calls, earlier>>

\* ------------------------------------------------------------- Errodator
UserHandler == "userHandler"              \* any caller-supplied function
BasicInternalError == "basicInternalError"
\* what a caller may pass for a constructor parameter; Undefined is also what
\* an omitted argument is
ArgValues == {UserHandler, Undefined, "null", "a string"}

TypeOf(x) ==
    IF x \in {UserHandler, BasicInternalError} THEN "function"
    ELSE IF x = Undefined THEN "undefined"
    ELSE IF x = "null" THEN "object"
    ELSE "string"

\* the default parameter value: onInternalError = basicInternalError
DefaultParam(x, dflt) == IF x = Undefined THEN dflt ELSE x

\* a constructor that does not check its third parameter
ConstructorErrorUnchecked(func, logger, onInternalError) ==
    IF TypeOf(func) # "function"
    THEN <<"Errodator: func argument must be a function">>
    ELSE IF TypeOf(logger) # "function"
    THEN <<"Errodator: logger argument must be a function">>
    ELSE << >>

\* the checks of the constructor: the Error it throws, if any
ConstructorError(func, logger, onInternalError) ==
    IF TypeOf(func) # "function"
    THEN <<"Errodator: func argument must be a function">>
    ELSE IF TypeOf(logger) # "function"
    THEN <<"Errodator: logger argument must be a function">>
    ELSE IF TypeOf(onInternalError) # "function"
    THEN <<"Errodator: onInternalError argument must be a function">>
    ELSE << >>

NoDispatcher ==
    [status |-> "none", func |-> Undefined, logger |-> Undefined,
     onInternalError |-> Undefined, args |-> << >>, thrown |-> << >>]

\* ------------------------------------------------------- one validate call
\* an activation whose flag is already set when the try block starts
IdleCallFlagSet ==
    [pc |-> "idle", error |-> NullValue, args |-> << >>,
     isHandlingInternalError |-> TRUE,
     invoked |-> << >>, settled |-> << >>, console |-> << >>,
     internalError |-> << >>, recursiveError |-> << >>, rejection |-> << >>]

\* no activation, and the locals of one that starts
IdleCall ==
    [pc |-> "idle", error |-> NullValue, args |-> << >>,
     isHandlingInternalError |-> FALSE,
     invoked |-> << >>,          \* handler invocations, in order
     settled |-> << >>,          \* how each invoked handler ended, in order
     console |-> << >>,          \* console.error lines, in order
     internalError |-> << >>,    \* what the chosen handler threw
     recursiveError |-> << >>,   \* what onInternalError threw
     rejection |-> << >>]        \* what the promise of validate rejected with

Invoke(call, handler, arguments) ==
    [call EXCEPT !.invoked = Append(@, [handler |-> handler, arguments |-> arguments])]

ConsoleError(call, tag, value) ==
    [call EXCEPT !.console = Append(@, [tag |-> tag, value |-> value])]

\* an invoked handler returns or fulfils ("fulfilled"), or throws or rejects
\* ("failed")
Settle(call, how) == [call EXCEPT !.settled = Append(@, how)]

\* a call of the handler that is not awaited: validate runs on to its end
AwaitNot(call, where) == [call EXCEPT !.pc = "done"]

\* await handler(...): validate is suspended until the handler settles
Await(call, where) == [call EXCEPT !.pc = where]

\* an exception that leaves validate: its promise rejects
Reject(call, v) == [call EXCEPT !.pc = "rejected", !.rejection = <<v>>]

\* the body of basicInternalError for an error whose properties can be read
BasicInternalErrorLines(call, error) ==
    LET c1 == ConsoleError(call, "Errodator >> Internal error:", error.props.message)
    IN IF Truthy(error.props.cause)
       THEN ConsoleError(c1, "Errodator >> Caused by:", error.props.cause)
       ELSE c1

\* an inner catch block that hands the second failure to onInternalError
\* once more
RecursiveCatchRetry(call, recursiveError) ==
    LET c0 == [call EXCEPT !.recursiveError = <<recursiveError>>]
    IN IF Len(c0.invoked) < 3
       THEN Await(Invoke(c0, "onInternalError", <<recursiveError>> \o c0.args),
                  "awaitInternal")
       ELSE [c0 EXCEPT !.pc = "done"]

\* catch (recursiveError) { ... }
RecursiveCatch(call, recursiveError) ==
    LET c0 == [call EXCEPT !.recursiveError = <<recursiveError>>]
    IN IF Nullish(recursiveError)
       THEN Reject(c0, TypeErrorValue)
       ELSE LET c1 == ConsoleError(c0, "Errodator >> Error in onInternalError:",
                                   recursiveError.props.message)
                c2 == IF Truthy(recursiveError.props.cause)
                      THEN ConsoleError(c1, "Errodator >> Caused by:",
                                        recursiveError.props.cause)
                      ELSE c1
            IN [c2 EXCEPT !.pc = "done"]

\* a flag shared by every call of the dispatcher
IsHandlingShared(call) == \E d \in DOMAIN calls : calls[d].isHandlingInternalError

\* a flag kept on the dispatcher: once a call has set it, it stays set
IsHandlingSticky(call) ==
    \/ call.isHandlingInternalError
    \/ earlier \cap {"redirected", "internal handler failed"} # {}

\* if (isHandlingInternalError)
IsHandling(call) == call.isHandlingInternalError

\* onInternalError handed the error validate was called with
InternalArgumentsOriginal(call, internalError) == <<call.error>> \o call.args

\* the arguments of this.onInternalError(internalError, ...args)
InternalArguments(call, internalError) == <<internalError>> \o call.args

\* catch (internalError) { ... } up to the await of onInternalError;
\* thrownNow is << >> when onInternalError returns, <<w>> when it throws w
\* before returning
InternalCatch(call, internalError, thrownNow) ==
    LET c0 == [call EXCEPT !.internalError = <<internalError>>]
    IN IF IsHandling(c0)
       THEN IF Nullish(internalError)
            THEN Reject(c0, TypeErrorValue)
            ELSE [ConsoleError(c0, "Errodator >> Recursive internal error detected:",
                               internalError.props.message) EXCEPT !.pc = "done"]
       ELSE LET c1 == [c0 EXCEPT !.isHandlingInternalError = TRUE]
                c2 == Invoke(c1, "onInternalError", InternalArguments(c1, internalError))
            IN IF dispatcher.onInternalError = BasicInternalError
               THEN IF Nullish(internalError)
                    THEN RecursiveCatch(Settle(c2, "failed"), TypeErrorValue)
                    ELSE Await(BasicInternalErrorLines(c2, internalError), "awaitInternal")
               ELSE IF thrownNow = << >>
                    THEN Await(c2, "awaitInternal")
                    ELSE RecursiveCatch(Settle(c2, "failed"), thrownNow[1])

\* a resumption that runs the catch block however the handler settled
MainSettledAlwaysCaught(call, outcome, internalThrownNow) ==
    IF outcome = << >>
    THEN InternalCatch(Settle(call, "fulfilled"), PrimValue, internalThrownNow)
    ELSE InternalCatch(Settle(call, "failed"), outcome[1], internalThrownNow)

\* validate resumes after await this.func/this.logger: the try block ends,
\* or the catch block runs with the rejection
MainSettled(call, outcome, internalThrownNow) ==
    IF outcome = << >>
    THEN [Settle(call, "fulfilled") EXCEPT !.pc = "done"]
    ELSE InternalCatch(Settle(call, "failed"), outcome[1], internalThrownNow)

\* validate resumes after await this.onInternalError: it ends, or the inner
\* catch block runs with the rejection
InternalSettled(call, outcome) ==
    IF outcome = << >>
    THEN [Settle(call, "fulfilled") EXCEPT !.pc = "done"]
    ELSE RecursiveCatch(Settle(call, "failed"), outcome[1])

\* ------------------------------------------------------- inputs of validate
\* the errors validate is called with
ErrorInputs ==
    {ErrodConstructor("bad input", <<Src("code", "400")>>),
     ErrodConstructor("denied", <<Src("name", "Renamed"), Src("message", "overwritten")>>),
     ErrorValue("boom", Undefined), FakeErrod, NullValue, PrimValue}
\* the context lists ...args
ContextLists == {<< >>, <<"res">>, <<"res", "metadata">>}
\* what a caller-supplied handler may throw or reject with
ThrownValues ==
    {ErrorValue("x", Undefined), ErrorValue("x", ""), ErrorValue("x", "db"), NullValue}

\* the smaller inputs of the calls that run concurrently
ConcErrors == {ErrodConstructor("bad input", << >>), ErrorValue("boom", Undefined)}
ConcContexts == {<<"res1">>, <<"res2">>}
ConcThrown == {ErrorValue("x", Undefined), NullValue}

\* a handler returns (<< >>) or fails with a value (<<v>>)
Outcomes(T) == {<< >>} \cup {<<v>> : v \in T}

CallIds == 1 .. NumCalls

\* ------------------------------------------------------------------- Init
Init ==
    /\ errod = << >>
    /\ dispatcher = NoDispatcher
    /\ calls = [c \in CallIds |-> IdleCall]
    /\ earlier = {}

\* ---------------------------------------------------------------- actions
\* new Errod(message, ...args) at a throw site
NewErrod(message, args) ==
    /\ errod' = <<[message |-> message, args |-> args,
                   value |-> ErrodConstructor(message, args)]>>
    /\ UNCHANGED <<dispatcher, calls, earlier>>

\* new Errodator(func, logger, onInternalError)
ErrodatorConstructor(func, logger, onInternalError) ==
    /\ dispatcher.status = "none"
    /\ LET internal == DefaultParam(onInternalError, BasicInternalError)
           err == ConstructorError(func, logger, internal)
       IN dispatcher' =
              [status |-> IF err = << >> THEN "constructed" ELSE "threw",
               func |-> func, logger |-> logger, onInternalError |-> internal,
               args |-> <<func, logger, onInternalError>>, thrown |-> err]
    /\ UNCHANGED <<errod, calls, earlier>>

\* validate(error, ...args) up to its first await: the chosen handler
\* returns (thrownNow = << >>) or throws before returning
Validate(c, error, args, thrownNow, internalThrownNow) ==
    /\ dispatcher.status = "constructed"
    /\ calls[c].pc = "idle"
    /\ LET c0 == [IdleCall EXCEPT !.error = error, !.args = args]
           c1 == IF IsErrod(error)
                 THEN Invoke(c0, "func", <<error>> \o args)
                 ELSE Invoke(c0, "logger", <<error>> \o args)
       IN calls' = [calls EXCEPT ![c] =
              IF thrownNow = << >>
              THEN Await(c1, "awaitMain")
              ELSE InternalCatch(Settle(c1, "failed"), thrownNow[1], internalThrownNow)]
    /\ UNCHANGED <<errod, dispatcher, earlier>>

\* the awaited func/logger settles: fulfilled (<< >>) or rejected (<<v>>)
ResumeMain(c, outcome, internalThrownNow) ==
    /\ calls[c].pc = "awaitMain"
    /\ calls' = [calls EXCEPT ![c] = MainSettled(@, outcome, internalThrownNow)]
    /\ UNCHANGED <<errod, dispatcher, earlier>>

\* the awaited onInternalError settles; basicInternalError has returned
\* undefined, which only fulfils
ResumeInternal(c, outcome) ==
    /\ calls[c].pc = "awaitInternal"
    /\ dispatcher.onInternalError = BasicInternalError => outcome = << >>
    /\ calls' = [calls EXCEPT ![c] = InternalSettled(@, outcome)]
    /\ UNCHANGED <<errod, dispatcher, earlier>>

\* how a validate call went: its handler succeeded, its failure was
\* redirected to onInternalError, or onInternalError failed as well
OutcomeKind(call) ==
    IF call.recursiveError # << >> THEN "internal handler failed"
    ELSE IF call.internalError # << >> THEN "redirected"
    ELSE "handled"

\* the caller that awaited validate goes on, and may call it again; earlier
\* keeps how the calls it has seen went
CallerResumes(c) ==
    /\ calls[c].pc \in {"done", "rejected"}
    /\ calls' = [calls EXCEPT ![c] = IdleCall]
    /\ earlier' = earlier \cup {OutcomeKind(calls[c])}
    /\ UNCHANGED <<errod, dispatcher>>

\* a call nobody awaited has ended: its activation is gone, and the route
\* may call validate for another request
ActivationEnds(c) ==
    /\ calls[c].pc \in {"done", "rejected"}
    /\ calls' = [calls EXCEPT ![c] = IdleCall]
    /\ UNCHANGED <<errod, dispatcher, earlier>>

\* --------------------------------------------------------- specifications
\* one caller that awaits each validate before the next
Next ==
    \/ \E f \in ArgValues, l \in ArgValues, o \in ArgValues :
           ErrodatorConstructor(f, l, o)
    \/ \E e \in ErrorInputs, a \in ContextLists,
          m \in Outcomes(ThrownValues), i \in Outcomes(ThrownValues) :
           Validate(1, e, a, m, i)
    \/ \E m \in Outcomes(ThrownValues), i \in Outcomes(ThrownValues) :
           ResumeMain(1, m, i)
    \/ \E i \in Outcomes(ThrownValues) : ResumeInternal(1, i)
    \/ CallerResumes(1)

Spec == Init /\ [][Next]_vars

\* callers that do not await validate: NumCalls calls in flight
NextConc ==
    \/ \E o \in {UserHandler, Undefined} :
           ErrodatorConstructor(UserHandler, UserHandler, o)
    \/ \E c \in CallIds, e \in ConcErrors, a \in ConcContexts,
          m \in Outcomes(ConcThrown), i \in Outcomes(ConcThrown) :
           Validate(c, e, a, m, i)
    \/ \E c \in CallIds, m \in Outcomes(ConcThrown), i \in Outcomes(ConcThrown) :
           ResumeMain(c, m, i)
    \/ \E c \in CallIds, i \in Outcomes(ConcThrown) : ResumeInternal(c, i)
    \/ \E c \in CallIds : ActivationEnds(c)

\* the same caller, when every handler that was invoked settles in the end
SpecLive ==
    /\ Spec
    /\ WF_vars(\E m \in Outcomes(ThrownValues), i \in Outcomes(ThrownValues) :
                   ResumeMain(1, m, i))
    /\ WF_vars(\E i \in Outcomes(ThrownValues) : ResumeInternal(1, i))

SpecConc == Init /\ [][NextConc]_vars

\* the Errod constructor on its own
NextErrod == \E m \in Messages, a \in SourceLists : NewErrod(m, a)

SpecErrod == Init /\ [][NextErrod]_vars

\* ------------------------------------------------------------- properties
InvocationsOf(call, handler) ==
    {i \in 1 .. Len(call.invoked) : call.invoked[i].handler = handler}

\* C1: a validate call whose error is an Errod instance, whatever its message
\* and metadata, invokes func exactly once, with (error, ...args) in order,
\* and never invokes logger.
C1_ErrodGoesToFunc ==
    \A c \in CallIds :
        LET call == calls[c]
        IN (call.pc # "idle" /\ call.error.proto = "Errod") =>
               /\ Cardinality(InvocationsOf(call, "func")) = 1
               /\ call.invoked[1] =
                      [handler |-> "func", arguments |-> <<call.error>> \o call.args]
               /\ InvocationsOf(call, "logger") = {}

\* an Errod whose metadata overwrote name and message was handed to func
\* with two context values, and the call completed
C1_Witness ==
    \E c \in CallIds :
        /\ calls[c].pc = "done"
        /\ calls[c].error.proto = "Errod"
        /\ calls[c].error.props.name = "Renamed"
        /\ calls[c].error.props.message = "overwritten"
        /\ Len(calls[c].args) = 2
        /\ calls[c].invoked[1].handler = "func"
        /\ calls[c].internalError = << >>

\* C2: a validate call whose error is not an Errod instance invokes logger
\* exactly once, with (error, ...args) in order, and never func; and every
\* validate call has invoked exactly one of func and logger.
C2_OthersGoToLogger ==
    \A c \in CallIds :
        LET call == calls[c]
        IN call.pc # "idle" =>
               /\ Cardinality(InvocationsOf(call, "func") \cup InvocationsOf(call, "logger")) = 1
               /\ call.error.proto # "Errod" =>
                      /\ Cardinality(InvocationsOf(call, "logger")) = 1
                      /\ call.invoked[1] =
                             [handler |-> "logger", arguments |-> <<call.error>> \o call.args]
                      /\ InvocationsOf(call, "func") = {}

\* a plain object named 'Errod' was handed to logger with a context value
C2_Witness ==
    \E c \in CallIds :
        /\ calls[c].pc = "done"
        /\ calls[c].error = FakeErrod
        /\ Len(calls[c].args) = 1
        /\ calls[c].invoked[1].handler = "logger"
        /\ calls[c].internalError = << >>

\* C3: once the chosen handler has thrown or rejected with v, onInternalError
\* has been invoked exactly once in that call, with (v, ...args) for the args
\* validate was called with.
C3_FailureGoesToInternalOnce ==
    \A c \in CallIds :
        LET call == calls[c]
        IN call.internalError # << >> =>
               /\ Cardinality(InvocationsOf(call, "onInternalError")) = 1
               /\ Len(call.invoked) = 2
               /\ call.invoked[2] =
                      [handler |-> "onInternalError",
                       arguments |-> <<call.internalError[1]>> \o call.args]

\* logger failed with an error that is not the one validate was called with,
\* and onInternalError ran to completion with two context values
C3_Witness ==
    \E c \in CallIds :
        /\ calls[c].pc = "done"
        /\ calls[c].internalError = <<ErrorValue("x", "db")>>
        /\ calls[c].error = ErrorValue("boom", Undefined)
        /\ calls[c].args = <<"res", "metadata">>
        /\ calls[c].recursiveError = << >>
        /\ Len(calls[c].invoked) = 2

\* C4: when the chosen handler failed and onInternalError failed too,
\* onInternalError was invoked exactly once, nothing else was invoked after
\* it, and validate completes without raising to its caller.
C4_SecondFailureContained ==
    \A c \in CallIds :
        LET call == calls[c]
        IN (call.internalError # << >> /\ call.recursiveError # << >>) =>
               /\ Cardinality(InvocationsOf(call, "onInternalError")) = 1
               /\ Len(call.invoked) = 2
               /\ call.pc = "done"
               /\ call.rejection = << >>

\* C5: the promise validate returns never rejects.
C5_ValidateNeverRejects ==
    \A c \in CallIds : calls[c].pc # "rejected" /\ calls[c].rejection = << >>

\* C6: new Errodator(func, logger, onInternalError) throws exactly when func
\* is not a function, logger is not a function, or onInternalError is given
\* and is not a function; then no validate call exists.  Otherwise it yields
\* a dispatcher holding func, logger and onInternalError, the last being
\* basicInternalError when omitted.
C6_ConstructorChecks ==
    dispatcher.status # "none" =>
        LET a == dispatcher.args
            bad == \/ a[1] # UserHandler
                   \/ a[2] # UserHandler
                   \/ (a[3] # Undefined /\ a[3] # UserHandler)
        IN /\ bad => /\ dispatcher.status = "threw"
                     /\ dispatcher.thrown # << >>
                     /\ \A c \in CallIds : calls[c] = IdleCall
           /\ ~bad => /\ dispatcher.status = "constructed"
                      /\ dispatcher.thrown = << >>
                      /\ dispatcher.func = a[1]
                      /\ dispatcher.logger = a[2]
                      /\ dispatcher.onInternalError =
                             IF a[3] = Undefined THEN BasicInternalError ELSE a[3]

\* func and logger are functions, onInternalError is null: the constructor threw
C6_Witness ==
    /\ dispatcher.status = "threw"
    /\ dispatcher.args = <<UserHandler, UserHandler, "null">>

\* the place of the last source that has key k, 0 when none has
LastSourceWith(args, k) ==
    LET having == {i \in 1 .. Len(args) : args[i][k] # Undefined}
    IN IF having = {} THEN 0 ELSE CHOOSE i \in having : \A j \in having : j <= i

\* every key some source has holds the value of the last source having it,
\* and a key no source has is not added
MetadataLastWins(r) ==
    \A k \in Keys :
        LET n == LastSourceWith(r.args, k)
        IN /\ n > 0 => r.value.props[k] = r.args[n][k]
           /\ (n = 0 /\ k \notin {"message", "name"}) => r.value.props[k] = Undefined

\* C7 as stated: an Errod built from message m and sources s1..sn has message
\* m, and every key of some source holds the value of the last source that
\* has it, and keys of no source are not added.
C7_MessageAndLastSourceWins ==
    \A i \in 1 .. Len(errod) :
        /\ errod[i].value.props.message = errod[i].message
        /\ MetadataLastWins(errod[i])

\* C7 amended: the message is m unless a source has the key message, in
\* which case message, like every key, holds the last such source's value.
C7_Amended ==
    \A i \in 1 .. Len(errod) :
        /\ LastSourceWith(errod[i].args, "message") = 0 =>
               errod[i].value.props.message = errod[i].message
        /\ MetadataLastWins(errod[i])

\* two sources carry code: the Errod holds the second one's value
C7_Witness ==
    /\ errod # << >>
    /\ errod[1].args = <<Src("code", "400"), Src("code", "500")>>
    /\ errod[1].value.props.code = "500"
    /\ errod[1].value.props.message = errod[1].message

\* C8: every constructed Errod has name 'Errod', whatever message and
\* metadata sources were given.
C8_NameIsErrod ==
    \A i \in 1 .. Len(errod) : errod[i].value.props.name = "Errod"

\* what a call invokes when it runs alone: the handler its error selects,
\* then onInternalError if and only if that handler failed, each with the
\* call's own context
SoloInvocations(call) ==
    <<[handler |-> IF call.error.proto = "Errod" THEN "func" ELSE "logger",
       arguments |-> <<call.error>> \o call.args]>>
    \o (IF call.internalError # << >>
        THEN <<[handler |-> "onInternalError",
                arguments |-> <<call.internalError[1]>> \o call.args]>>
        ELSE << >>)

\* C9: with several validate calls in flight, every call has invoked exactly
\* the handlers it would invoke alone, with its own error or thrown value and
\* its own context; the failures of other calls add, remove or redirect no
\* invocation, and no call reports a recursive internal error.
C9_CallsDoNotInterfere ==
    \A c \in CallIds :
        LET call == calls[c]
        IN call.pc # "idle" =>
               /\ call.invoked = SoloInvocations(call)
               /\ \A i \in 1 .. Len(call.console) :
                      call.console[i].tag # "Errodator >> Recursive internal error detected:"
               /\ call.pc = "awaitMain" => call.internalError = << >>
               /\ call.pc = "awaitInternal" =>
                      call.internalError # << >> /\ call.recursiveError = << >>

\* two calls with different contexts are both waiting for onInternalError
C9_Witness ==
    \E c \in CallIds, d \in CallIds :
        /\ c # d
        /\ calls[c].pc = "awaitInternal"
        /\ calls[d].pc = "awaitInternal"
        /\ calls[c].args # calls[d].args
        /\ calls[c].invoked[2].arguments = <<calls[c].internalError[1]>> \o calls[c].args
        /\ calls[d].invoked[2].arguments = <<calls[d].internalError[1]>> \o calls[d].args

\* C10: with onInternalError omitted, when the chosen handler failed with an
\* error object v, the call invoked the default handler and no other, wrote
\* one line with v.message, then a line with v.cause if and only if v has a
\* cause, nothing else, and completed normally.
C10_DefaultHandlerLines ==
    \A c \in CallIds :
        LET call == calls[c]
        IN (/\ dispatcher.args # << >>
            /\ dispatcher.args[3] = Undefined
            /\ call.pc = "done"
            /\ call.internalError # << >>
            /\ call.internalError[1].proto = "Error") =>
               LET v == call.internalError[1]
               IN /\ call.invoked = SoloInvocations(call)
                  /\ call.recursiveError = << >>
                  /\ call.console =
                         <<[tag |-> "Errodator >> Internal error:", value |-> v.props.message]>>
                         \o (IF v.props.cause # Undefined
                             THEN <<[tag |-> "Errodator >> Caused by:",
                                     value |-> v.props.cause]>>
                             ELSE << >>)

\* validate has ended: its promise is fulfilled or rejected
Terminal(call) == call.pc \in {"done", "rejected"}

\* how far along its path a call is
Rank(call) ==
    CASE call.pc = "idle" -> 0
      [] call.pc = "awaitMain" -> 1
      [] call.pc = "awaitInternal" -> 2
      [] OTHER -> 3

\* C11: a validate call moves forward only, dispatch -> func/logger ->
\* onInternalError -> end, and never back; it makes at most one func/logger
\* invocation and at most one onInternalError invocation, two in total; and
\* when every invoked handler settles, the call ends, whichever handlers fail.
C11_LinearPathTerminates ==
    /\ [](\A c \in CallIds :
             /\ Len(calls[c].invoked) <= 2
             /\ Cardinality(InvocationsOf(calls[c], "func")
                            \cup InvocationsOf(calls[c], "logger")) <= 1
             /\ Cardinality(InvocationsOf(calls[c], "onInternalError")) <= 1)
    /\ [][\A c \in CallIds :
             calls'[c] # calls[c] =>
                 \/ Terminal(calls[c]) /\ calls'[c].pc = "idle"
                 \/ /\ Rank(calls'[c]) > Rank(calls[c])
                    /\ Len(calls'[c].invoked) >= Len(calls[c].invoked)]_vars
    /\ \A c \in CallIds :
           (calls[c].pc \in {"awaitMain", "awaitInternal"}) ~> Terminal(calls[c])

\* both the chosen handler and onInternalError failed, each after an await,
\* and the call ended after two invocations
C11_Witness ==
    \E c \in CallIds :
        /\ calls[c].pc = "done"
        /\ calls[c].settled = <<"failed", "failed">>
        /\ Len(calls[c].invoked) = 2

\* the handler invoked last has not settled yet
Pending(call) == Len(call.settled) < Len(call.invoked)

\* C12: while func/logger is pending, validate has neither ended nor invoked
\* onInternalError; while onInternalError is pending, validate has not ended;
\* and as long as the pending handler does not settle, nothing of the call
\* changes: it does not end and invokes no further handler.
C12_ValidateWaitsForHandlers ==
    /\ [](\A c \in CallIds :
             Pending(calls[c]) =>
                 /\ ~Terminal(calls[c])
                 /\ Len(calls[c].settled) = 0 =>
                        calls[c].pc = "awaitMain" /\ Len(calls[c].invoked) = 1
                 /\ Len(calls[c].settled) = 1 =>
                        calls[c].pc = "awaitInternal" /\ Len(calls[c].invoked) = 2)
    /\ [][\A c \in CallIds :
             (Pending(calls[c]) /\ calls'[c].settled = calls[c].settled) =>
                 calls'[c] = calls[c]]_vars

\* one call waits for onInternalError while another call has already ended
C12_Witness ==
    \E c \in CallIds, d \in CallIds :
        /\ calls[c].pc = "awaitInternal"
        /\ calls[c].settled = <<"failed">>
        /\ Len(calls[c].invoked) = 2
        /\ calls[d].pc = "done"

RecursiveTag == "Errodator >> Recursive internal error detected:"

\* C13: isHandlingInternalError is false until the outer catch block is
\* entered, so the catch block always goes on to set the flag and invoke
\* onInternalError: the 'Recursive internal error detected' line is never
\* written and the early return is never taken.
C13_FlagBranchUnreachable ==
    \A c \in CallIds :
        LET call == calls[c]
        IN /\ \A i \in 1 .. Len(call.console) : call.console[i].tag # RecursiveTag
           /\ (call.pc # "idle" /\ call.internalError = << >>) =>
                  ~call.isHandlingInternalError
           /\ call.internalError # << >> =>
                  /\ call.isHandlingInternalError
                  /\ InvocationsOf(call, "onInternalError") # {}

\* the catch block was entered, onInternalError failed too, and the only
\* line written is the one of the inner catch block
C13_Witness ==
    \E c \in CallIds :
        /\ calls[c].pc = "done"
        /\ calls[c].internalError # << >>
        /\ calls[c].recursiveError = <<ErrorValue("x", Undefined)>>
        /\ calls[c].isHandlingInternalError
        /\ calls[c].console =
               <<[tag |-> "Errodator >> Error in onInternalError:", value |-> "x"]>>

SecondaryTag == "Errodator >> Error in onInternalError:"

\* C14: a call that has ended wrote the 'Error in onInternalError' line if
\* and only if onInternalError was invoked in it and threw or rejected; the
\* line carries the failure's message, is followed by a 'Caused by' line if
\* and only if the failure has a cause, and by nothing else; and the call
\* then returned normally with no further invocation.
C14_SecondaryFailureDiagnosed ==
    \A c \in CallIds :
        LET call == calls[c]
            failed == Len(call.settled) = 2 /\ call.settled[2] = "failed"
            lines == {i \in 1 .. Len(call.console) : call.console[i].tag = SecondaryTag}
        IN Terminal(call) =>
               /\ failed <=> lines # {}
               /\ failed =>
                      /\ call.pc = "done"
                      /\ call.rejection = << >>
                      /\ Len(call.invoked) = 2
                      /\ \A i \in lines :
                             LET w == call.recursiveError[1]
                             IN SubSeq(call.console, i, Len(call.console)) =
                                    <<[tag |-> SecondaryTag, value |-> w.props.message]>>
                                    \o (IF w.props.cause # Undefined
                                        THEN <<[tag |-> "Errodator >> Caused by:",
                                                value |-> w.props.cause]>>
                                        ELSE << >>)

\* C15: validate never changes func, logger or onInternalError, and leaves
\* nothing behind: however the earlier calls went, a later call starts from
\* fresh locals and invokes exactly what it would on a new dispatcher; when
\* its chosen handler fails it gets its own single onInternalError invocation.
C15_StatelessBetweenCalls ==
    /\ [][dispatcher.status = "constructed" => dispatcher' = dispatcher]_vars
    /\ [](\A c \in CallIds :
             LET call == calls[c]
             IN /\ call.pc = "idle" => call = IdleCall
                /\ call.pc # "idle" =>
                       /\ call.invoked = SoloInvocations(call)
                       /\ \A i \in 1 .. Len(call.console) :
                              call.console[i].tag # RecursiveTag
                       /\ (Len(call.settled) >= 1 /\ call.settled[1] = "failed") =>
                              Cardinality(InvocationsOf(call, "onInternalError")) = 1)

\* after calls that succeeded, were redirected, and had onInternalError
\* fail, one more call's handler failed and onInternalError ran for it
C15_Witness ==
    /\ earlier = {"handled", "redirected", "internal handler failed"}
    /\ \E c \in CallIds :
           /\ calls[c].pc = "done"
           /\ calls[c].settled = <<"failed", "fulfilled">>
           /\ Len(calls[c].invoked) = 2
           /\ calls[c].invoked[2].handler = "onInternalError"

\* C16: a call whose chosen handler returned or fulfilled has invoked that
\* handler only, has written no diagnostic line, and ends normally; and
\* onInternalError is invoked in a call only after that call's func/logger
\* failed.
C16_SuccessIsQuiet ==
    \A c \in CallIds :
        LET call == calls[c]
        IN /\ (Len(call.settled) >= 1 /\ call.settled[1] = "fulfilled") =>
                  /\ call.pc = "done"
                  /\ Len(call.invoked) = 1
                  /\ InvocationsOf(call, "onInternalError") = {}
                  /\ call.console = << >>
                  /\ call.rejection = << >>
           /\ InvocationsOf(call, "onInternalError") # {} =>
                  /\ call.settled # << >>
                  /\ call.settled[1] = "failed"
                  /\ call.invoked[1].handler \in {"func", "logger"}

\* func fulfilled after an await for an Errod with two context values
C16_Witness ==
    \E c \in CallIds :
        /\ calls[c].pc = "done"
        /\ calls[c].settled = <<"fulfilled">>
        /\ calls[c].invoked =
               <<[handler |-> "func", arguments |-> <<calls[c].error>> \o calls[c].args]>>
        /\ Len(calls[c].args) = 2
        /\ calls[c].console = << >>

====
